---- MODULE Spec2Model ----
(***************************************************************************)
(* Model of fhir_mcp_server.py: the FHIR gateway (FHIRClient._make_request), *)
(* the response validation and quality scoring                             *)
(* (_validate_fhir_response, _calculate_quality_score) and the per-category *)
(* assessment loop (assess_data_quality).                                  *)
(*                                                                         *)
(* Conventions.  A JSON object / Python dict is a function whose DOMAIN is *)
(* its key set.  A string that the code splits on '/' is the sequence of   *)
(* its '/'-separated segments (<<"Patient","1">> is "Patient/1").  A call  *)
(* result is Returned(v) or Raised(text); Python's None is NoneVal; JSON   *)
(* null is JsonNull.  Scores are whole numbers of points (100 is 100.0).   *)
(***************************************************************************)
EXTENDS Integers, Sequences, FiniteSets, TLC

VARIABLES
    doc,          \* the document handed to _validate_fhir_response
    validation,   \* result of _validate_fhir_response (or a given validation)
    score,        \* result of _calculate_quality_score
    phase,        \* position in the validate -> score pipeline
    method,       \* _make_request: HTTP method
    endpoint,     \* _make_request: endpoint, as its sequence of tokens
    http,         \* what the HTTP layer does with the request
    outcome,      \* result of _make_request
    arguments,    \* assess_data_quality tool call: its arguments
    pc,           \* assess_data_quality: "idle", "loop" or "done"
    test_resources,        \* assess_data_quality: the categories to evaluate
    idx,                   \* position of the loop in test_resources
    resource_assessments,  \* assessment["resource_assessments"]
    evaluated,    \* per category, the loop's locals: gateway result and validation
    calls,        \* the requests the HTTP layer received, in order
    assess_result, \* result of assess_data_quality
    tool,         \* handle_call_tool: name of the tool of the current call
    reply,        \* handle_call_tool: what the current call was answered with
    served,       \* number of tool calls started so far
    errors        \* number of calls answered by the outermost except clause

qualityVars == <<doc, validation, score, phase>>
gatewayVars == <<method, endpoint, http, outcome>>
assessVars  == <<arguments, pc, test_resources, idx, resource_assessments,
                 evaluated, calls, assess_result, tool, reply, served, errors>>
vars == <<doc, validation, score, phase, method, endpoint, http, outcome,
          arguments, pc, test_resources, idx, resource_assessments,
          evaluated, calls, assess_result, tool, reply, served, errors>>

(***************************************************************************)
(* Bounds                                                                  *)
(***************************************************************************)
MaxEntries == 3      \* longest Bundle.entry list
MaxIssues  == 2      \* longest issue list
MaxEndpointLen == 3  \* longest endpoint, in tokens
MaxToolCalls == 2    \* tool calls in one run of the server

(***************************************************************************)
(* Values                                                                  *)
(***************************************************************************)
EmptyDict == [k \in {} |-> 0]
JsonNull  == [json |-> "null"]      \* JSON null, or another value that is no object
NoneVal   == "None"

Get(d, k, dflt) == IF k \in DOMAIN d THEN d[k] ELSE dflt

\* a text is a record: its fixed part, and what an f-string interpolates
Text(t) == [text |-> t]

\* a JSON value that is an object (a dict), as opposed to null or any non-object
IsObject(v) == v # JsonNull

Pending      == [state |-> "pending"]
Returned(v)  == [state |-> "returned", value |-> v]
Raised(text) == [state |-> "raised", error |-> text]

RECURSIVE SeqsUpTo(_, _)
SeqsUpTo(S, n) ==
    IF n = 0 THEN {<<>>}
    ELSE LET shorter == SeqsUpTo(S, n - 1)
         IN  shorter \cup {Append(s, x) : s \in {t \in shorter : Len(t) = n - 1}, x \in S}

(***************************************************************************)
(* Input documents                                                         *)
(***************************************************************************)
PatientIds == {"1", "2"}
References == {<<"Patient", "1">>, <<"Patient", "2">>, <<"Patient", "3">>, <<"2">>}

PatientEntries ==
    {[resource |-> [resourceType |-> "Patient", id |-> i]] : i \in PatientIds}
    \cup {[resource |-> [resourceType |-> "Patient"]]}

SubjectEntries ==
    {[resource |-> [resourceType |-> "Observation", subject |-> [reference |-> r]]]
        : r \in References}
    \cup {[resource |-> [resourceType |-> "Observation", subject |-> [display |-> "x"]]],
          [resource |-> [resourceType |-> "Observation"]]}

BareEntries == {[fullUrl |-> "u"]}

\* entries on which the dict accessors of the code fail
MalformedEntries ==
    {[resource |-> JsonNull],
     [resource |-> [resourceType |-> "Observation", subject |-> JsonNull]]}

WellFormedEntries == PatientEntries \cup SubjectEntries \cup BareEntries
Entries == WellFormedEntries \cup MalformedEntries

LinkLists == {<<[relation |-> "self"]>>, <<[relation |-> "self"], [relation |-> "next"]>>}
Totals == {0, 2}

BundleBase == {[resourceType |-> "Bundle", entry |-> es] : es \in SeqsUpTo(Entries, MaxEntries)}
                  \cup {[resourceType |-> "Bundle"]}
BundleWithTotal == BundleBase \cup {b @@ ("total" :> t) : b \in BundleBase, t \in Totals}
Bundles == BundleWithTotal \cup {b @@ ("link" :> l) : b \in BundleWithTotal, l \in LinkLists}

Severities == {"error", "warning", "information", "fatal"}
InputIssues ==
    {[severity |-> s, code |-> "processing", details |-> [text |-> Text("msg")]] : s \in Severities}
    \cup {[code |-> "processing", details |-> [text |-> Text("msg")]],
          [severity |-> "error", details |-> EmptyDict],
          [severity |-> "warning"]}

OperationOutcomes ==
    {[resourceType |-> "OperationOutcome", issue |-> is] : is \in SeqsUpTo(InputIssues, MaxIssues)}
    \cup {[resourceType |-> "OperationOutcome"]}

OtherDocs == {[resourceType |-> "Patient", id |-> "1"], [id |-> "1"], EmptyDict}

Docs == Bundles \cup OperationOutcomes \cup OtherDocs

(***************************************************************************)
(* FHIRClient._make_request                                                *)
(***************************************************************************)
\* An endpoint is the sequence of its tokens: "/", "[", "]" or a word (a
\* non-empty run of characters other than / [ ] ? # :).
EndpointTokens == {"/", "[", "]", "Patient"}
Endpoints == SeqsUpTo(EndpointTokens, MaxEndpointLen)
Methods == {"GET", "POST"}

StatusCodes == {200, 201, 301, 400, 401, 403, 404, 500}

SampleDocs ==
    {[resourceType |-> "Bundle", total |-> 2,
      entry |-> <<[resource |-> [resourceType |-> "Patient", id |-> "1"]]>>],
     [resourceType |-> "Bundle"],
     [resourceType |-> "OperationOutcome",
      issue |-> <<[severity |-> "warning", code |-> "processing",
                   details |-> [text |-> Text("msg")]]>>],
     [resourceType |-> "Patient", id |-> "1"],
     EmptyDict}

\* what response.json() finds in the body
Bodies(docs) ==
    {[json |-> "object", value |-> d] : d \in docs}
    \cup {[json |-> "array"],          \* valid JSON, not an object
          [json |-> "invalid"],        \* not JSON: json.JSONDecodeError
          [json |-> "undecodable"]}    \* bytes that are no text: UnicodeDecodeError

\* what self.client.request(...) does
HttpBehaviours(docs) ==
    {[kind |-> "timeout"],             \* raises a httpx.TimeoutException
     [kind |-> "transport_error"],     \* raises httpx.ConnectError
     [kind |-> "other_error"]}         \* raises an exception that is no httpx.HTTPError
    \cup {[kind |-> "response", status_code |-> c, body |-> b] :
            c \in StatusCodes, b \in Bodies(docs)}

\* exception classes and their base classes
Bases(cls) ==
    CASE cls = "ReadTimeout"        -> {"ReadTimeout", "TimeoutException", "TransportError",
                                        "HTTPError", "Exception"}
      [] cls = "ConnectError"       -> {"ConnectError", "TransportError", "HTTPError", "Exception"}
      [] cls = "HTTPStatusError"    -> {"HTTPStatusError", "HTTPError", "Exception"}
      [] cls = "InvalidURL"         -> {"InvalidURL", "Exception"}
      [] cls = "JSONDecodeError"    -> {"JSONDecodeError", "ValueError", "Exception"}
      [] cls = "UnicodeDecodeError" -> {"UnicodeDecodeError", "ValueError", "Exception"}
      [] cls = "AttributeError"     -> {"AttributeError", "Exception"}
      [] cls = "ValueError"         -> {"ValueError", "Exception"}

Exc(cls, msg) == [state |-> "raised", class |-> cls, message |-> msg]

Outcome(code, text) ==
    [resourceType |-> "OperationOutcome",
     issue |-> <<[severity |-> "error", code |-> code, details |-> [text |-> text]]>>]

\* line 72: urljoin -> urlsplit rejects a netloc with '[' or ']' that is no
\* bracketed IP literal; the netloc is what follows a leading "//" up to the
\* next "/"
RECURSIVE Netloc(_)
Netloc(tokens) ==
    IF Len(tokens) = 0 \/ Head(tokens) = "/" THEN <<>>
    ELSE <<Head(tokens)>> \o Netloc(Tail(tokens))

Contains(tokens, t) == \E i \in 1..Len(tokens) : tokens[i] = t

UrljoinRaises(ep) ==
    /\ Len(ep) >= 2
    /\ ep[1] = "/"
    /\ ep[2] = "/"
    /\ LET netloc == Netloc(SubSeq(ep, 3, Len(ep))) IN
        \/ Contains(netloc, "[") /\ ~Contains(netloc, "]")
        \/ Contains(netloc, "]") /\ ~Contains(netloc, "[")
        \/ Contains(netloc, "[") /\ Contains(netloc, "]")   \* no IP literal over these tokens

\* lines 77-82
ClientRequest(m, ep, h) ==
    CASE h.kind = "timeout"         -> Exc("ReadTimeout", "timed out")
      [] h.kind = "transport_error" -> Exc("ConnectError", "connection refused")
      [] h.kind = "other_error"     -> Exc("InvalidURL", "invalid url")
      [] h.kind = "response"        -> Returned(h)

\* line 92: response.raise_for_status()
RaiseForStatus(response) ==
    IF response.status_code >= 200 /\ response.status_code <= 299
    THEN Returned(response)
    ELSE Exc("HTTPStatusError", "status error")

\* line 96: response.json()
ResponseJson(response) ==
    CASE response.body.json = "object"      -> Returned(response.body.value)
      [] response.body.json = "array"       -> Returned(JsonNull)
      [] response.body.json = "invalid"     -> Exc("JSONDecodeError", "Expecting value")
      [] response.body.json = "undecodable" -> Exc("UnicodeDecodeError", "invalid start byte")

\* lines 95-101: the inner try
ParseBody(response) ==
    LET result == ResponseJson(response) IN
    IF result.state = "raised"
    THEN IF "JSONDecodeError" \in Bases(result.class)
         THEN Returned(Outcome("invalid",
                  [text |-> "Invalid JSON response: ", message |-> result.message]))
         ELSE result
    ELSE IF ~IsObject(result.value)
         THEN Exc("AttributeError", "object has no attribute 'get'")   \* line 97
         ELSE result

\* lines 85-90
StatusOutcome(ep, response) ==
    CASE response.status_code = 404 ->
            Outcome("not-found", [text |-> "Resource not found: ", endpoint |-> ep])
      [] response.status_code = 401 -> Outcome("security", Text("Authentication required"))
      [] response.status_code = 403 -> Outcome("forbidden", Text("Access forbidden"))

\* lines 76-101: the body of the outer try
TryBody(m, ep, h) ==
    LET sent == ClientRequest(m, ep, h) IN
    IF sent.state = "raised" THEN sent
    ELSE LET response == sent.value IN
         IF response.status_code \in {404, 401, 403}
         THEN Returned(StatusOutcome(ep, response))
         ELSE LET checked == RaiseForStatus(response) IN
              IF checked.state = "raised" THEN checked
              ELSE ParseBody(response)

\* lines 103-111: the except clauses, in the order they are tried
ExceptClausesHTTPErrorFirst ==
    <<[class |-> "HTTPError",        code |-> "exception", text |-> "HTTP error: "],
      [class |-> "TimeoutException", code |-> "timeout",   text |-> "Request timed out"],
      [class |-> "Exception",        code |-> "exception", text |-> "Unexpected error: "]>>

ExceptClauses ==
    <<[class |-> "TimeoutException", code |-> "timeout",   text |-> "Request timed out"],
      [class |-> "HTTPError",        code |-> "exception", text |-> "HTTP error: "],
      [class |-> "Exception",        code |-> "exception", text |-> "Unexpected error: "]>>

\* the first clause that matches the raised exception handles it
RECURSIVE Handle(_, _)
Handle(clauses, exc) ==
    IF Len(clauses) = 0 THEN exc
    ELSE LET c == Head(clauses) IN
         IF c.class \in Bases(exc.class)
         THEN Returned(Outcome(c.code,
                  IF c.class = "TimeoutException"
                  THEN Text(c.text)
                  ELSE [text |-> c.text, message |-> exc.message]))
         ELSE Handle(Tail(clauses), exc)

\* lines 70-111
make_request(m, ep, h) ==
    IF UrljoinRaises(ep) THEN Raised("Invalid IPv6 URL")
    ELSE LET r == TryBody(m, ep, h) IN
         IF r.state = "raised" THEN Handle(ExceptClauses, r) ELSE r

(***************************************************************************)
(* _validate_fhir_response                                                 *)
(***************************************************************************)
AttributeErrorText == "'NoneType' object has no attribute 'get'"
TypeErrorText      == "argument of type 'NoneType' is not iterable"

\* lines 159-163: one copied issue, missing fields defaulted
CopyIssue(issue) ==
    [severity |-> Get(issue, "severity", "unknown"),
     code     |-> Get(issue, "code", "unknown"),
     details  |-> Get(Get(issue, "details", EmptyDict), "text", Text("No details"))]

\* lines 158-163: the loop over response['issue']
RECURSIVE CopyIssues(_, _)
CopyIssues(issues, acc) ==
    IF Len(issues) = 0 THEN acc
    ELSE CopyIssues(Tail(issues), Append(acc, CopyIssue(Head(issues))))

\* line 174
HasNextPage(links) ==
    \E i \in 1..Len(links) : Get(links[i], "relation", NoneVal) = "next"

\* line 175: entry.get('resource', {}).get('resourceType') fails on a non-object
ResourceTypesRaises(entries) ==
    \E i \in 1..Len(entries) :
        "resource" \in DOMAIN entries[i] /\ ~IsObject(entries[i].resource)

ResourceTypes(entries) ==
    {Get(entries[i].resource, "resourceType", NoneVal) :
        i \in {j \in 1..Len(entries) : "resource" \in DOMAIN entries[j]}}

\* lines 183-191: one iteration of the reference scan
ScanEntry(entry, acc) ==
    LET resource == Get(entry, "resource", EmptyDict) IN
    IF ~IsObject(resource) THEN [acc EXCEPT !.error = AttributeErrorText]
    ELSE IF Get(resource, "resourceType", NoneVal) = "Patient"
    THEN [acc EXCEPT !.actual_patients = @ \cup {Get(resource, "id", NoneVal)}]
    ELSE IF "subject" \in DOMAIN resource
    THEN IF ~IsObject(resource.subject) THEN [acc EXCEPT !.error = TypeErrorText]
         ELSE IF "reference" \in DOMAIN resource.subject
         THEN LET ref == resource.subject.reference IN
              IF Len(ref) > 1
              THEN [acc EXCEPT !.patient_refs = @ \cup {ref[Len(ref)]}]
              ELSE acc
         ELSE acc
    ELSE acc

\* lines 179-191: the scan, stopping at the first exception
RECURSIVE ScanEntries(_, _)
ScanEntries(entries, acc) ==
    IF Len(entries) = 0 \/ acc.error # "" THEN acc
    ELSE ScanEntries(Tail(entries), ScanEntry(Head(entries), acc))

\* lines 193-201 without the 'and actual_patients' guard
OrphanCheckNoPatientGuard(patient_refs, actual_patients, result) ==
    LET orphaned == patient_refs \ actual_patients IN
    IF orphaned # {}
    THEN [result EXCEPT
            !.issues = Append(@, [severity |-> "warning",
                                  code     |-> "orphaned-references",
                                  details  |-> [text  |-> "Found {n} orphaned patient references",
                                                n     |-> Cardinality(orphaned)]]),
            !.data_quality = @ @@ ("orphaned_patient_refs" :> Cardinality(orphaned))]
    ELSE result

\* lines 193-201 without line 201: the warning is appended, the count is not recorded
OrphanCheckIssueOnly(patient_refs, actual_patients, result) ==
    IF patient_refs # {} /\ actual_patients # {}
    THEN LET orphaned == patient_refs \ actual_patients IN
         IF orphaned # {}
         THEN [result EXCEPT
                 !.issues = Append(@, [severity |-> "warning",
                                       code     |-> "orphaned-references",
                                       details  |-> [text  |-> "Found {n} orphaned patient references",
                                                     n     |-> Cardinality(orphaned)]])]
         ELSE result
    ELSE result

\* lines 193-201
OrphanCheck(patient_refs, actual_patients, result) ==
    IF patient_refs # {} /\ actual_patients # {}
    THEN LET orphaned == patient_refs \ actual_patients IN
         IF orphaned # {}
         THEN [result EXCEPT
                 !.issues = Append(@, [severity |-> "warning",
                                       code     |-> "orphaned-references",
                                       details  |-> [text  |-> "Found {n} orphaned patient references",
                                                     n     |-> Cardinality(orphaned)]]),
                 !.data_quality = @ @@ ("orphaned_patient_refs" :> Cardinality(orphaned))]
         ELSE result
    ELSE result

\* line 169 with a default of 1
BundleTotalDefaultOne(response) == Get(response, "total", 1)

\* line 169
BundleTotal(response) == Get(response, "total", 0)

\* lines 167-201
ValidateBundle(response, result) ==
    LET entries == Get(response, "entry", <<>>)
        total   == BundleTotal(response)
    IN  IF ResourceTypesRaises(entries) THEN Raised(AttributeErrorText)
        ELSE
        LET withQuality ==
                [result EXCEPT !.data_quality =
                    [total_resources    |-> total,
                     returned_resources |-> Len(entries),
                     has_next_page      |-> HasNextPage(Get(response, "link", <<>>)),
                     resource_types     |-> ResourceTypes(entries)]]
            scan == ScanEntries(entries,
                        [patient_refs |-> {}, actual_patients |-> {}, error |-> ""])
        IN  IF scan.error # "" THEN Raised(scan.error)
            ELSE Returned(OrphanCheck(scan.patient_refs, scan.actual_patients, withQuality))

\* lines 154-164, marking invalid only when an error issue is present
ValidateOutcomeErrorsOnly(response, result) ==
    LET issues == CopyIssues(Get(response, "issue", <<>>), <<>>) IN
    Returned([result EXCEPT
                !.is_valid = ~(\E i \in 1..Len(issues) : issues[i].severity = "error"),
                !.issues = issues])

\* lines 154-164
ValidateOutcome(response, result) ==
    Returned([result EXCEPT !.is_valid = FALSE,
                            !.issues = CopyIssues(Get(response, "issue", <<>>), <<>>)])

\* lines 145-203 with a document of any other shape marked invalid
validate_fhir_response_unknown_invalid(response) ==
    LET validation_result ==
            [is_valid      |-> TRUE,
             issues        |-> <<>>,
             data_quality  |-> EmptyDict,
             resource_type |-> Get(response, "resourceType", "Unknown")]
    IN  IF Get(response, "resourceType", NoneVal) = "OperationOutcome"
        THEN ValidateOutcome(response, validation_result)
        ELSE IF Get(response, "resourceType", NoneVal) = "Bundle"
        THEN ValidateBundle(response, validation_result)
        ELSE Returned([validation_result EXCEPT !.is_valid = FALSE])

\* lines 145-203
validate_fhir_response(response) ==
    LET validation_result ==
            [is_valid      |-> TRUE,
             issues        |-> <<>>,
             data_quality  |-> EmptyDict,
             resource_type |-> Get(response, "resourceType", "Unknown")]
    IN  IF Get(response, "resourceType", NoneVal) = "OperationOutcome"
        THEN ValidateOutcome(response, validation_result)
        ELSE IF Get(response, "resourceType", NoneVal) = "Bundle"
        THEN ValidateBundle(response, validation_result)
        ELSE Returned(validation_result)

(***************************************************************************)
(* _calculate_quality_score                                                *)
(***************************************************************************)
BaseScore        == 100
ErrorDeduction   == 30
WarningDeduction == 10
OrphanDeduction  == 20
EmptyDeduction   == 50

Max(a, b) == IF a >= b THEN a ELSE b

\* lines 246-249 with a warning counted like an error
IssueDeductionWarningAsError(issue) ==
    IF issue.severity \in {"error", "warning"} THEN ErrorDeduction ELSE 0

\* lines 246-249
IssueDeduction(issue) ==
    IF issue.severity = "error" THEN ErrorDeduction
    ELSE IF issue.severity = "warning" THEN WarningDeduction
    ELSE 0

\* lines 245-249
RECURSIVE DeductIssues(_, _)
DeductIssues(issues, s) ==
    IF Len(issues) = 0 THEN s
    ELSE DeductIssues(Tail(issues), s - IssueDeduction(Head(issues)))

\* lines 252-257 with the orphan test inverted
DeductCompletenessInverted(quality, s) ==
    LET s1 == IF Get(quality, "orphaned_patient_refs", 0) > 0 THEN s ELSE s - OrphanDeduction
    IN  IF Get(quality, "total_resources", 0) = 0 THEN s1 - EmptyDeduction ELSE s1

\* lines 252-257
DeductCompleteness(quality, s) ==
    LET s1 == IF Get(quality, "orphaned_patient_refs", 0) > 0 THEN s - OrphanDeduction ELSE s
    IN  IF Get(quality, "total_resources", 0) = 0 THEN s1 - EmptyDeduction ELSE s1

\* line 259 without the clamp
ClampNone(s) == s

\* line 259
Clamp(s) == Max(0, s)

\* lines 237-259 without the short-circuit of lines 239-240
calculate_quality_score_no_short_circuit(v) ==
    Clamp(DeductCompleteness(v.data_quality, DeductIssues(v.issues, BaseScore)))

\* lines 237-259
calculate_quality_score(v) ==
    IF ~v.is_valid THEN 0
    ELSE Clamp(DeductCompleteness(v.data_quality, DeductIssues(v.issues, BaseScore)))

(***************************************************************************)
(* Validation results given directly to _calculate_quality_score           *)
(***************************************************************************)
ResultIssues ==
    {[severity |-> s, code |-> "c", details |-> Text("d")] : s \in Severities \cup {"unknown"}}

QualityMappings ==
    LET vals == {0, 2} IN
    {EmptyDict}
    \cup {[total_resources |-> t] : t \in vals}
    \cup {[orphaned_patient_refs |-> o] : o \in vals}
    \cup {[total_resources |-> t, orphaned_patient_refs |-> o] : t \in vals, o \in vals}

GivenValidations ==
    {[is_valid |-> ok, issues |-> is, data_quality |-> q, resource_type |-> "Bundle"] :
        ok \in BOOLEAN, is \in SeqsUpTo(ResultIssues, MaxIssues), q \in QualityMappings}

NoDoc == [none |-> TRUE]

(***************************************************************************)
(* The validate -> score pipeline                                          *)
(***************************************************************************)
QualityIdle ==
    /\ doc = NoDoc
    /\ validation = Pending
    /\ score = Pending
    /\ phase = "idle"

GatewayIdle ==
    /\ method = "GET"
    /\ endpoint = <<>>
    /\ http = [kind |-> "none"]
    /\ outcome = Pending

InitFromDoc ==
    /\ doc \in Docs
    /\ validation = Pending
    /\ score = Pending
    /\ phase = "start"

InitGiven ==
    /\ doc = NoDoc
    /\ validation \in {Returned(v) : v \in GivenValidations}
    /\ score = Pending
    /\ phase = "validated"

AssessIdle ==
    /\ arguments = EmptyDict
    /\ pc = "idle"
    /\ test_resources = <<>>
    /\ idx = 0
    /\ resource_assessments = EmptyDict
    /\ evaluated = EmptyDict
    /\ calls = <<>>
    /\ assess_result = Pending
    /\ tool = NoneVal
    /\ reply = Pending
    /\ served = 0
    /\ errors = 0

InitQuality == (InitFromDoc \/ InitGiven) /\ GatewayIdle /\ AssessIdle

Validate ==
    /\ phase = "start"
    /\ validation' = validate_fhir_response(doc)
    /\ phase' = "validated"
    /\ UNCHANGED <<doc, score>>
    /\ UNCHANGED <<gatewayVars, assessVars>>

Score ==
    /\ phase = "validated"
    /\ validation.state = "returned"
    /\ score' = Returned(calculate_quality_score(validation.value))
    /\ phase' = "scored"
    /\ UNCHANGED <<doc, validation>>
    /\ UNCHANGED <<gatewayVars, assessVars>>

NextQuality == Validate \/ Score

SpecQuality == InitQuality /\ [][NextQuality]_vars

(***************************************************************************)
(* One gateway call                                                        *)
(***************************************************************************)
InitGateway ==
    /\ method \in Methods
    /\ endpoint \in Endpoints
    /\ http \in HttpBehaviours(SampleDocs)
    /\ outcome = Pending
    /\ QualityIdle
    /\ AssessIdle

MakeRequest ==
    /\ outcome = Pending
    /\ http.kind # "none"
    /\ outcome' = make_request(method, endpoint, http)
    /\ UNCHANGED <<method, endpoint, http>>
    /\ UNCHANGED <<qualityVars, assessVars>>

NextGateway == MakeRequest

SpecGateway == InitGateway /\ [][NextGateway]_vars

(***************************************************************************)
(* assess_data_quality                                                     *)
(***************************************************************************)
SampleCount == 10

DefaultResources ==
    <<(<<"Patient">>), (<<"Observation">>), (<<"Condition">>), (<<"MedicationRequest">>)>>

\* the tool call's arguments: resource_type absent, empty, a category, or a
\* string urljoin rejects
ArgumentSets ==
    {EmptyDict,
     [resource_type |-> <<>>],
     [resource_type |-> <<"Patient">>],
     [resource_type |-> <<"Condition">>],
     [resource_type |-> <<"/", "/", "[">>]}

AssessDocs ==
    {[resourceType |-> "Bundle", total |-> 2,
      entry |-> <<[resource |-> [resourceType |-> "Patient", id |-> "1"]]>>],
     [resourceType |-> "Bundle",
      entry |-> <<[resource |-> [resourceType |-> "Patient", id |-> "1"]],
                  [resource |-> [resourceType |-> "Observation",
                                 subject |-> [reference |-> <<"Patient", "2">>]]]>>],
     [resourceType |-> "Bundle", total |-> 2, entry |-> <<[resource |-> JsonNull]>>],
     [resourceType |-> "Patient", id |-> "1", total |-> 5],
     EmptyDict}

\* what the HTTP layer may do with one request of the assessment
AssessBehaviours ==
    {h \in HttpBehaviours(AssessDocs) :
        /\ h.kind # "other_error"
        /\ h.kind = "response" =>
            /\ h.status_code \in {200, 404, 500}
            /\ h.body.json # "undecodable"
            /\ h.status_code # 200 => h.body.json = "invalid"}

\* line 214 with the default categories in alphabetical order
TestResourcesSorted(args) ==
    IF "resource_type" \notin DOMAIN args \/ Len(args.resource_type) = 0
    THEN <<(<<"Condition">>), (<<"MedicationRequest">>), (<<"Observation">>), (<<"Patient">>)>>
    ELSE <<args.resource_type>>

\* line 214 with 'resource_type is None' as the test
TestResourcesNoneOnly(args) ==
    IF "resource_type" \notin DOMAIN args
    THEN DefaultResources
    ELSE <<args.resource_type>>

\* line 214
TestResources(args) ==
    IF "resource_type" \notin DOMAIN args \/ Len(args.resource_type) = 0
    THEN DefaultResources
    ELSE <<args.resource_type>>

\* line 219: the gateway call of one category
GatewayResult(resource, h) == make_request("GET", resource, h)

\* lines 72-82: the request the HTTP layer receives, if the call gets that far
RequestsSent(resource, h) ==
    IF UrljoinRaises(resource) THEN <<>>
    ELSE <<[method |-> "GET", endpoint |-> resource,
            params |-> ("_count" :> SampleCount), http |-> h]>>

\* line 220
ValidationOf(result) ==
    IF result.state = "raised" THEN Pending ELSE validate_fhir_response(result.value)

\* lines 219-227: the body of the try
EvaluateResource(resource, h) ==
    LET result == GatewayResult(resource, h)
        v      == ValidationOf(result)
    IN  IF result.state = "raised" THEN result
        ELSE IF v.state = "raised" THEN v
        ELSE Returned(
                [accessible         |-> v.value.is_valid,
                 total_available    |-> Get(v.value.data_quality, "total_resources", 0),
                 issues             |-> v.value.issues,
                 data_quality_score |-> calculate_quality_score(v.value)])

\* lines 217-233 without the except clause
RecordForNoCatch(resource, h) == EvaluateResource(resource, h)

\* lines 217-233: the try and its except clause
RecordFor(resource, h) ==
    LET r == EvaluateResource(resource, h) IN
    IF r.state = "raised"
    THEN Returned([accessible |-> FALSE, error |-> r.error, data_quality_score |-> 0])
    ELSE r

InitAssess ==
    /\ AssessIdle
    /\ QualityIdle
    /\ GatewayIdle

(***************************************************************************)
(* handle_call_tool: the reply of assess_data_quality (lines 734-777)      *)
(***************************************************************************)
\* str.upper() on the severities in use
Upper(sev) ==
    CASE sev = "error"       -> "ERROR"
      [] sev = "warning"     -> "WARNING"
      [] sev = "information" -> "INFORMATION"
      [] sev = "fatal"       -> "FATAL"
      [] OTHER               -> "UNKNOWN"

\* lines 752-753
IssueLines(issues) ==
    [k \in 1..Len(issues) |->
        [text |-> "    - {severity}: {details}",
         severity |-> Upper(issues[k].severity), details |-> issues[k].details]]

\* lines 743-762 with the issues listed for an inaccessible category too
CategoryBlockListsIssuesAlways(resource, data) ==
    [resource |-> resource,
     lines |->
        <<[text |-> "{resource} Resource:"],
          [text |-> "  Accessible: ", accessible |-> data.accessible]>>
        \o (IF data.accessible
            THEN <<[text |-> "  Quality Score: {:.1f}/100", points |-> data.data_quality_score],
                   [text |-> "  Total Available: ", total |-> data.total_available]>>
            ELSE <<[text |-> "  Error: ", error |-> Get(data, "error", "Unknown error")]>>)
        \o (IF Len(Get(data, "issues", <<>>)) > 0
            THEN <<[text |-> "  Issues Found:"]>> \o IssueLines(data.issues)
            ELSE <<[text |-> "  No issues detected"]>>)
        \o <<[text |-> ""]>>]

\* lines 743-762: the lines of one category
CategoryBlock(resource, data) ==
    [resource |-> resource,
     lines |->
        <<[text |-> "{resource} Resource:"],
          [text |-> "  Accessible: ", accessible |-> data.accessible]>>
        \o (IF data.accessible
            THEN <<[text |-> "  Quality Score: {:.1f}/100", points |-> data.data_quality_score],
                   [text |-> "  Total Available: ", total |-> data.total_available]>>
                 \o (IF Len(data.issues) > 0
                     THEN <<[text |-> "  Issues Found:"]>> \o IssueLines(data.issues)
                     ELSE <<[text |-> "  No issues detected"]>>)
            ELSE <<[text |-> "  Error: ", error |-> Get(data, "error", "Unknown error")]>>)
        \o <<[text |-> ""]>>]

\* lines 742-762 with every category counted in the average
ReplyCategoryCountsAll(acc, resource, data) ==
    [blocks         |-> Append(acc.blocks, CategoryBlock(resource, data)),
     overall_score  |-> acc.overall_score + data.data_quality_score,
     resource_count |-> acc.resource_count + 1]

\* lines 742-762: one iteration of the loop over resource_assessments
ReplyCategory(acc, resource, data) ==
    [blocks         |-> Append(acc.blocks, CategoryBlock(resource, data)),
     overall_score  |-> IF data.accessible
                        THEN acc.overall_score + data.data_quality_score
                        ELSE acc.overall_score,
     resource_count |-> IF data.accessible
                        THEN acc.resource_count + 1
                        ELSE acc.resource_count]

\* lines 739-762: the loop, in the insertion order of the dict
RECURSIVE ReplyLoop(_, _, _)
ReplyLoop(order, ra, acc) ==
    IF Len(order) = 0 THEN acc
    ELSE ReplyLoop(Tail(order), ra, ReplyCategory(acc, Head(order), ra[Head(order)]))

\* format(avg, '.1f'), in tenths of a point (no tie occurs: see Tenths uses)
Tenths(num, den) == (20 * num + den) \div (2 * den)

\* lines 768-775
Rating(num, den) ==
    IF num >= 80 * den THEN "EXCELLENT"
    ELSE IF num >= 60 * den THEN "GOOD"
    ELSE IF num >= 40 * den THEN "FAIR"
    ELSE "POOR"

\* lines 764-775
OverallLines(overall_score, resource_count) ==
    IF resource_count > 0
    THEN <<[text |-> "Overall Data Quality Score: {:.1f}/100",
            avg |-> [num |-> overall_score, den |-> resource_count],
            shown |-> Tenths(overall_score, resource_count)],
           [text |-> "{rating}", rating |-> Rating(overall_score, resource_count)]>>
    ELSE <<>>

\* the keys of resource_assessments in insertion order (the order of
\* test_resources, each key once)
RECURSIVE InsertionOrder(_, _)
InsertionOrder(order, seen) ==
    IF Len(order) = 0 THEN <<>>
    ELSE IF Head(order) \in seen THEN InsertionOrder(Tail(order), seen)
    ELSE <<Head(order)>> \o InsertionOrder(Tail(order), seen \cup {Head(order)})

TextReply(kind, body) == Returned([kind |-> kind, body |-> body])

\* lines 734-777
AssessReply(order, ra) ==
    LET acc == ReplyLoop(InsertionOrder(order, {}), ra,
                         [blocks |-> <<>>, overall_score |-> 0, resource_count |-> 0])
    IN  TextReply("assessment",
            [header     |-> <<[text |-> "FHIR Server Data Quality Assessment"],
                              [text |-> "Server: {server_url}"],
                              [text |-> "Timestamp: {timestamp}"],
                              [text |-> ""]>>,
             categories |-> acc.blocks,
             overall    |-> OverallLines(acc.overall_score, acc.resource_count)])

\* lines 782-785
ErrorReply(name, text) ==
    TextReply("error", [text |-> "Error calling tool {name}: {e}", name |-> name, e |-> text])

\* lines 205-214, entered from the tool call (lines 401-410, 730-732)
StartAssess ==
    /\ pc = "idle"
    /\ reply.state # "raised"
    /\ served < MaxToolCalls
    /\ \E a \in ArgumentSets :
          /\ arguments' = a
          /\ test_resources' = TestResources(a)
    /\ tool' = "assess_data_quality"
    /\ served' = served + 1
    /\ reply' = Pending
    /\ idx' = 1
    /\ pc' = "loop"
    /\ resource_assessments' = EmptyDict
    /\ evaluated' = EmptyDict
    /\ calls' = <<>>
    /\ assess_result' = Pending
    /\ UNCHANGED errors
    /\ UNCHANGED <<qualityVars, gatewayVars>>

\* lines 216-235: one iteration of the loop; the last one returns to
\* handle_call_tool, which builds the reply (lines 734-777)
AssessResource ==
    /\ pc = "loop"
    /\ idx <= Len(test_resources)
    /\ \E h \in AssessBehaviours :
          LET resource == test_resources[idx]
              result   == GatewayResult(resource, h)
              r        == RecordFor(resource, h)
          IN  /\ calls' = calls \o RequestsSent(resource, h)
              /\ evaluated' = (resource :> [result |-> result,
                                            validation |-> ValidationOf(result)])
                              @@ evaluated
              /\ IF r.state = "raised"
                 THEN /\ assess_result' = r
                      /\ pc' = "done"
                      /\ reply' = ErrorReply(tool, r.error)
                      /\ errors' = errors + 1
                      /\ UNCHANGED <<resource_assessments, idx>>
                 ELSE /\ resource_assessments' = (resource :> r.value) @@ resource_assessments
                      /\ idx' = idx + 1
                      /\ UNCHANGED errors
                      /\ IF idx = Len(test_resources)
                         THEN /\ pc' = "done"
                              /\ assess_result' =
                                    Returned([resource_assessments |-> resource_assessments'])
                              /\ reply' = AssessReply(test_resources, resource_assessments')
                         ELSE UNCHANGED <<pc, assess_result, reply>>
    /\ UNCHANGED <<arguments, test_resources, tool, served>>
    /\ UNCHANGED <<qualityVars, gatewayVars>>

(***************************************************************************)
(* handle_call_tool: the other tools (lines 401-728, 779-785)              *)
(***************************************************************************)
\* the global fhir_client is set by main() before the server runs (lines 799-805)
FhirClientInitialized == TRUE

SearchTools ==
    {"search_patients", "search_all_patients", "search_observations",
     "search_conditions", "search_medication_requests",
     "search_diagnostic_reports", "search_care_plans"}

\* lines 113-143: the endpoint each client method requests
ToolEndpoint(name) ==
    CASE name \in {"search_patients", "search_all_patients"} -> <<"Patient">>
      [] name = "search_observations"           -> <<"Observation">>
      [] name \in {"search_conditions", "find_patients_with_conditions"} -> <<"Condition">>
      [] name = "search_medication_requests"    -> <<"MedicationRequest">>
      [] name = "search_diagnostic_reports"     -> <<"DiagnosticReport">>
      [] name = "search_care_plans"             -> <<"CarePlan">>
      [] name = "get_capability_statement"      -> <<"metadata">>

\* entries[:5] for observations (line 532), entries[:10] elsewhere
ShowLimit(name) == IF name = "search_observations" THEN 5 ELSE 10

Min(a, b) == IF a <= b THEN a ELSE b

\* an exception on its way out of a tool branch; name is the local variable
\* 'name' at that point (the get_patient branch reassigns it, line 427)
ToolRaised(name, text) == [state |-> "raised", error |-> text, name |-> name]

\* what a call result that raised says, whatever the record that carries it
RaisedError(r) == IF "error" \in DOMAIN r THEN r.error ELSE r.message

\* lines 463-489 and alike: the reply of a search tool
SearchReply(name, result) ==
    LET total   == Get(result, "total", 0)
        entries == Get(result, "entry", <<>>)
        shown   == SubSeq(entries, 1, Min(Len(entries), ShowLimit(name)))
    IN  IF \E k \in 1..Len(shown) : ~IsObject(Get(shown[k], "resource", EmptyDict))
        THEN ToolRaised(name, AttributeErrorText)
        ELSE TextReply("search",
                [head    |-> [text |-> "Found {total}", total |-> total],
                 page    |-> [text |-> "Returned {n} entries", n |-> Len(entries)],
                 entries |-> [k \in 1..Len(shown) |->
                                [id |-> Get(Get(shown[k], "resource", EmptyDict),
                                            "id", "Unknown")]]])

\* lines 547-561
CapabilityReply(name, result) ==
    TextReply("capability",
        [fhir_version |-> Get(result, "fhirVersion", "Unknown"),
         publisher    |-> Get(result, "publisher", "Unknown"),
         rest         |-> IF "rest" \in DOMAIN result THEN Len(result.rest) ELSE 0])

\* lines 710-716: one iteration of the loop over the entries
PatientIdOf(entry, acc) ==
    LET resource == Get(entry, "resource", EmptyDict) IN
    IF ~IsObject(resource) THEN [acc EXCEPT !.error = TypeErrorText]
    ELSE IF "subject" \in DOMAIN resource
    THEN IF ~IsObject(resource.subject) THEN [acc EXCEPT !.error = TypeErrorText]
         ELSE IF "reference" \in DOMAIN resource.subject
         THEN LET ref == resource.subject.reference IN
              IF Len(ref) > 1
              THEN [acc EXCEPT !.patient_ids = @ \cup {ref[Len(ref)]}]
              ELSE acc
         ELSE acc
    ELSE acc

\* lines 709-716: the loop, stopping at the first exception
RECURSIVE PatientIdsOf(_, _)
PatientIdsOf(entries, acc) ==
    IF Len(entries) = 0 \/ acc.error # "" THEN acc
    ELSE PatientIdsOf(Tail(entries), PatientIdOf(Head(entries), acc))

\* lines 705-728
FindPatientsReply(name, result) ==
    LET scan == PatientIdsOf(Get(result, "entry", <<>>),
                             [patient_ids |-> {}, error |-> ""])
    IN  IF scan.error # "" THEN ToolRaised(name, scan.error)
        ELSE TextReply("patients_with_conditions",
                [head |-> [text |-> "Found {n} unique patients with conditions",
                           n |-> Cardinality(scan.patient_ids)],
                 ids  |-> scan.patient_ids])

\* lines 420-434: the name shown for the patient
PatientName(result) ==
    IF "name" \in DOMAIN result /\ Len(result.name) > 0
    THEN IF ~IsObject(result.name[1])
         THEN ToolRaised("Unknown Name", AttributeErrorText)
         ELSE Returned([given  |-> Get(result.name[1], "given", <<>>),
                        family |-> Get(result.name[1], "family", "")])
    ELSE Returned("Unknown Name")

\* line 421 with the requested id as the default
PatientIdShownDefaultsToRequest(result, patient_id) == Get(result, "id", patient_id)

\* line 421: patient_id = result.get('id', 'Unknown')
PatientIdShown(result, patient_id) == Get(result, "id", <<"Unknown">>)

\* lines 420-454: the lines of the reply for the document the gateway returned
PatientLines(result, patient_id) ==
    LET shown == PatientName(result) IN
    IF shown.state = "raised" THEN shown
    ELSE IF "address" \in DOMAIN result /\ Len(result.address) > 0
            /\ ~IsObject(result.address[1])
    THEN ToolRaised(shown.value, AttributeErrorText)
    ELSE IF "telecom" \in DOMAIN result
            /\ \E k \in 1..Len(result.telecom) : ~IsObject(result.telecom[k])
    THEN ToolRaised(shown.value, AttributeErrorText)
    ELSE TextReply("patient",
            [head       |-> [text |-> "Patient found:"],
             id         |-> PatientIdShown(result, patient_id),
             name       |-> shown.value,
             birth_date |-> Get(result, "birthDate", "Unknown"),
             gender     |-> Get(result, "gender", "Unknown"),
             location   |-> IF "address" \in DOMAIN result /\ Len(result.address) > 0
                            THEN <<[city    |-> Get(result.address[1], "city", ""),
                                    state   |-> Get(result.address[1], "state", ""),
                                    country |-> Get(result.address[1], "country", "")]>>
                            ELSE <<>>,
             contacts   |-> IF "telecom" \in DOMAIN result
                            THEN SelectSeq(result.telecom,
                                    LAMBDA c : Get(c, "system", NoneVal) \in {"phone", "email"})
                            ELSE <<>>])

\* the class of the exception _make_request lets out: urljoin's ValueError
GatewayExceptionClass(r) == Get(r, "class", "ValueError")

\* lines 411-459 with 'patient_id is None' as the test of line 413
GetPatientMissingOnly(name, args, h) ==
    IF "patient_id" \notin DOMAIN args
    THEN TextReply("rejection", [text |-> "Patient ID is required"])
    ELSE LET result == make_request("GET", <<"Patient", "/">> \o args.patient_id, h) IN
         IF result.state = "raised"
         THEN ToolRaised(name, RaisedError(result))
         ELSE PatientLines(result.value, args.patient_id)

\* lines 411-459
GetPatient(name, args, h) ==
    LET patient_id == Get(args, "patient_id", <<>>) IN
    IF Len(patient_id) = 0
    THEN TextReply("rejection", [text |-> "Patient ID is required"])
    ELSE LET result == make_request("GET", <<"Patient", "/">> \o patient_id, h) IN
         IF result.state = "raised"
         THEN IF "HTTPStatusError" \in Bases(GatewayExceptionClass(result))
              THEN TextReply("patient_error",
                      [text |-> "Patient with ID {patient_id} not found / Error retrieving patient",
                       e |-> RaisedError(result)])
              ELSE ToolRaised(name, RaisedError(result))
         ELSE PatientLines(result.value, patient_id)

\* the request a tool branch hands to the HTTP layer
ToolRequest(name, args) ==
    IF name = "get_patient"
    THEN IF Len(Get(args, "patient_id", <<>>)) = 0 THEN <<>>
         ELSE <<[method |-> "GET",
                 endpoint |-> <<"Patient", "/">> \o args.patient_id,
                 params |-> EmptyDict]>>
    ELSE IF name \in SearchTools \cup {"find_patients_with_conditions",
                                       "get_capability_statement"}
    THEN <<[method |-> "GET", endpoint |-> ToolEndpoint(name),
            params |-> IF name = "search_all_patients"
                       THEN ("_count" :> Get(args, "_count", SampleCount))
                       ELSE IF name = "get_capability_statement" THEN EmptyDict
                       ELSE args]>>
    ELSE <<>>

\* lines 72-82: the requests of a tool call that reach the HTTP layer
ToolRequestsSent(name, args, h) ==
    LET req == ToolRequest(name, args) IN
    IF Len(req) = 0 \/ UrljoinRaises(req[1].endpoint) THEN <<>>
    ELSE <<req[1] @@ ("http" :> h)>>

\* lines 461-728: a branch with one gateway call and its formatting
OneCallTool(name, args, h) ==
    LET result == make_request("GET", ToolEndpoint(name), h) IN
    IF result.state = "raised" THEN ToolRaised(name, RaisedError(result))
    ELSE IF ~IsObject(result.value) THEN ToolRaised(name, AttributeErrorText)
    ELSE IF name = "get_capability_statement" THEN CapabilityReply(name, result.value)
    ELSE IF name = "find_patients_with_conditions" THEN FindPatientsReply(name, result.value)
    ELSE SearchReply(name, result.value)

\* lines 410-780: the branches of the dispatch, assess_data_quality apart
Dispatch(name, args, h) ==
    IF name = "get_patient" THEN GetPatient(name, args, h)
    ELSE IF name \in SearchTools \cup {"find_patients_with_conditions",
                                       "get_capability_statement"}
    THEN OneCallTool(name, args, h)
    ELSE TextReply("unknown_tool", [text |-> "Unknown tool: {name}", name |-> name])

\* lines 401-785 without the outermost except clause
handle_call_tool_no_catch(name, args, h) ==
    IF ~FhirClientInitialized
    THEN TextReply("not_initialized", [text |-> "FHIR client not initialized"])
    ELSE Dispatch(name, args, h)

\* lines 401-785
handle_call_tool(name, args, h) ==
    IF ~FhirClientInitialized
    THEN TextReply("not_initialized", [text |-> "FHIR client not initialized"])
    ELSE LET r == Dispatch(name, args, h) IN
         IF r.state = "raised" THEN ErrorReply(r.name, r.error) ELSE r

ToolDocs ==
    {[resourceType |-> "Patient", id |-> <<"1">>, birthDate |-> "1970-01-01",
      gender |-> "female",
      name |-> <<[family |-> "F", given |-> <<"G">>]>>,
      address |-> <<[city |-> "C"]>>,
      telecom |-> <<[system |-> "phone", value |-> "1"], [system |-> "fax"]>>],
     [resourceType |-> "Patient"],
     [resourceType |-> "Patient", id |-> <<"1">>, name |-> <<JsonNull>>],
     [resourceType |-> "Patient", id |-> <<"1">>,
      name |-> <<[family |-> "F"]>>, address |-> <<JsonNull>>],
     [resourceType |-> "Bundle", total |-> 2,
      entry |-> <<[resource |-> [resourceType |-> "Condition", id |-> "7",
                                 subject |-> [reference |-> <<"Patient", "1">>]]]>>],
     [resourceType |-> "Bundle", total |-> 0],
     [resourceType |-> "Bundle", total |-> 2, entry |-> <<[resource |-> JsonNull]>>],
     [resourceType |-> "CapabilityStatement", fhirVersion |-> "4.0.1",
      rest |-> <<[mode |-> "server"]>>]}

ToolBehaviours ==
    {h \in HttpBehaviours(ToolDocs) :
        h.kind = "response" =>
            /\ h.status_code \in {200, 404, 401, 403, 500}
            /\ h.status_code # 200 => h.body.json = "invalid"}

PatientIdArguments ==
    {EmptyDict,
     [patient_id |-> <<>>],
     [patient_id |-> <<"1">>],
     [patient_id |-> <<"/", "/", "[">>]}

\* the calls a client makes, assess_data_quality apart
ToolCalls ==
    {[name |-> "get_patient", arguments |-> a] : a \in PatientIdArguments}
    \cup {[name |-> n, arguments |-> EmptyDict] :
            n \in SearchTools \cup {"find_patients_with_conditions",
                                    "get_capability_statement", "no_such_tool"}}

\* lines 401-785: a call of a tool other than assess_data_quality
CallTool ==
    /\ pc = "idle"
    /\ reply.state # "raised"
    /\ served < MaxToolCalls
    /\ \E c \in ToolCalls, h \in ToolBehaviours :
          LET r == handle_call_tool(c.name, c.arguments, h) IN
          /\ tool' = c.name
          /\ arguments' = c.arguments
          /\ calls' = ToolRequestsSent(c.name, c.arguments, h)
          /\ reply' = r
          /\ errors' = IF r.state = "returned" /\ r.value.kind = "error"
                       THEN errors + 1 ELSE errors
    /\ served' = served + 1
    /\ pc' = "done"
    /\ UNCHANGED <<test_resources, idx, resource_assessments, evaluated, assess_result>>
    /\ UNCHANGED <<qualityVars, gatewayVars>>

\* the reply is handed back; the call's locals are gone and the server waits
\* for the next call
EndCall ==
    /\ pc = "done"
    /\ reply.state = "returned"
    /\ pc' = "idle"
    /\ tool' = NoneVal
    /\ reply' = Pending
    /\ arguments' = EmptyDict
    /\ test_resources' = <<>>
    /\ idx' = 0
    /\ resource_assessments' = EmptyDict
    /\ evaluated' = EmptyDict
    /\ calls' = <<>>
    /\ assess_result' = Pending
    /\ UNCHANGED <<served, errors>>
    /\ UNCHANGED <<qualityVars, gatewayVars>>

Next == StartAssess \/ AssessResource \/ CallTool \/ EndCall

Spec == InitAssess /\ [][Next]_vars

(***************************************************************************)
(* Properties of the gateway (checked under SpecGateway)                   *)
(***************************************************************************)
IsOperationOutcome(d) == Get(d, "resourceType", NoneVal) = "OperationOutcome"

Is2xx(c) == c >= 200 /\ c <= 299

\* the HTTP layer did something other than deliver a 2xx JSON object
FailurePath(h) ==
    \/ h.kind # "response"
    \/ h.kind = "response" /\ (~Is2xx(h.status_code) \/ h.body.json # "object")

\* C1: _make_request never raises: for every method, endpoint and behaviour of
\* the HTTP layer the call returns a document, and on every failure path that
\* document is an OperationOutcome with at least one issue.
C1_NeverRaises ==
    outcome # Pending =>
        /\ outcome.state = "returned"
        /\ FailurePath(http) =>
              /\ IsOperationOutcome(outcome.value)
              /\ Len(outcome.value.issue) >= 1

\* the issue the claim's table gives for a failure kind: code and fixed text
IssueOf(code, text) == [code |-> code, text |-> text]

ClaimedIssue(h) ==
    CASE h.kind = "timeout"         -> IssueOf("timeout", "Request timed out")
      [] h.kind = "transport_error" -> IssueOf("exception", "Unexpected error: ")
      [] h.kind = "other_error"     -> IssueOf("exception", "Unexpected error: ")
      [] h.kind = "response" ->
            CASE h.status_code = 404 -> IssueOf("not-found", "Resource not found: ")
              [] h.status_code = 401 -> IssueOf("security", "Authentication required")
              [] h.status_code = 403 -> IssueOf("forbidden", "Access forbidden")
              [] h.status_code \notin {404, 401, 403} /\ ~Is2xx(h.status_code) ->
                    IssueOf("exception", "HTTP error: ")
              [] Is2xx(h.status_code) /\ h.body.json \in {"invalid", "undecodable"} ->
                    IssueOf("invalid", "Invalid JSON response: ")
              [] OTHER -> IssueOf("exception", "Unexpected error: ")

AmendedIssue(h) ==
    CASE h.kind = "timeout"         -> IssueOf("timeout", "Request timed out")
      [] h.kind = "transport_error" -> IssueOf("exception", "HTTP error: ")
      [] h.kind = "other_error"     -> IssueOf("exception", "Unexpected error: ")
      [] h.kind = "response" ->
            CASE h.status_code = 404 -> IssueOf("not-found", "Resource not found: ")
              [] h.status_code = 401 -> IssueOf("security", "Authentication required")
              [] h.status_code = 403 -> IssueOf("forbidden", "Access forbidden")
              [] h.status_code \notin {404, 401, 403} /\ ~Is2xx(h.status_code) ->
                    IssueOf("exception", "HTTP error: ")
              [] Is2xx(h.status_code) /\ h.body.json = "invalid" ->
                    IssueOf("invalid", "Invalid JSON response: ")
              [] OTHER -> IssueOf("exception", "Unexpected error: ")

CarriesExactly(d, expected) ==
    /\ IsOperationOutcome(d)
    /\ Len(d.issue) = 1
    /\ d.issue[1].severity = "error"
    /\ d.issue[1].code = expected.code
    /\ d.issue[1].details.text.text = expected.text

\* C2 as stated: the Failure carries exactly one issue, (severity, code) and
\* detail prefix fixed by the failure kind, where every failure that is no
\* status, no unparseable body and no timeout reads 'Unexpected error:'.
C2_FailureTableAsStated ==
    (outcome.state = "returned" /\ FailurePath(http)) =>
        CarriesExactly(outcome.value, ClaimedIssue(http))

\* C2 amended: as stated, except that a non-timeout transport error is an
\* httpx.HTTPError and reads 'HTTP error:', and only a body rejected with
\* json.JSONDecodeError maps to 'invalid' (any other failure of json(), like
\* a JSON body that is no object, reads 'Unexpected error:').
C2_FailureTable ==
    (outcome.state = "returned" /\ FailurePath(http)) =>
        CarriesExactly(outcome.value, AmendedIssue(http))

C2_Witness ==
    /\ outcome.state = "returned"
    /\ http.kind = "transport_error"
    /\ CarriesExactly(outcome.value, IssueOf("exception", "HTTP error: "))

(***************************************************************************)
(* Properties of validation and scoring (checked under SpecQuality)        *)
(***************************************************************************)
IsBundle(d) == Get(d, "resourceType", NoneVal) = "Bundle"

Validated == phase \in {"validated", "scored"} /\ validation.state = "returned"

\* C3: every OperationOutcome document, whatever its issues, validates to
\* is_valid = FALSE with one copied issue per input issue, and scores 0.
C3_OutcomeInvalidScoresZero ==
    IsOperationOutcome(doc) =>
        /\ phase \in {"validated", "scored"} =>
              /\ validation.state = "returned"
              /\ validation.value.is_valid = FALSE
              /\ Len(validation.value.issues) = Len(Get(doc, "issue", <<>>))
        /\ phase = "validated" => ENABLED Score
        /\ phase = "scored" => score.value = 0

C3_Witness ==
    /\ phase = "scored"
    /\ IsOperationOutcome(doc)
    /\ Len(Get(doc, "issue", <<>>)) = MaxIssues
    /\ \A i \in 1..Len(doc.issue) : Get(doc.issue[i], "severity", NoneVal) = "warning"
    /\ score.value = 0

\* the claim's two sets, read off the document
SubjectIndexes(entries) ==
    {i \in 1..Len(entries) :
        /\ "resource" \in DOMAIN entries[i]
        /\ Get(entries[i].resource, "resourceType", NoneVal) # "Patient"
        /\ "subject" \in DOMAIN entries[i].resource
        /\ "reference" \in DOMAIN entries[i].resource.subject
        /\ Len(entries[i].resource.subject.reference) > 1}

ReferencedIds(entries) ==
    {entries[i].resource.subject.reference[Len(entries[i].resource.subject.reference)] :
        i \in SubjectIndexes(entries)}

PatientEntryIds(entries) ==
    {Get(entries[i].resource, "id", NoneVal) :
        i \in {j \in 1..Len(entries) :
                 /\ "resource" \in DOMAIN entries[j]
                 /\ Get(entries[j].resource, "resourceType", NoneVal) = "Patient"}}

OrphanIssueIndexes(issues) ==
    {i \in 1..Len(issues) : issues[i].code = "orphaned-references"}

\* C4: on a Bundle, the orphaned-references warning is appended and
\* orphaned_patient_refs recorded iff the referenced IDs (last segment of each
\* subject.reference holding a '/') and the IDs of the Patient entries (None
\* for a Patient without id) are both non-empty and some referenced ID is no
\* Patient ID; the count is the number of distinct referenced IDs that are no
\* Patient ID.
C4_OrphanDetection ==
    (IsBundle(doc) /\ Validated) =>
        LET entries  == Get(doc, "entry", <<>>)
            refs     == ReferencedIds(entries)
            patients == PatientEntryIds(entries)
            orphans  == refs \ patients
            fires    == refs # {} /\ patients # {} /\ orphans # {}
            v        == validation.value
            found    == OrphanIssueIndexes(v.issues)
        IN  /\ (found # {}) <=> fires
            /\ ("orphaned_patient_refs" \in DOMAIN v.data_quality) <=> fires
            /\ fires =>
                  /\ Cardinality(found) = 1
                  /\ \A i \in found : v.issues[i].severity = "warning"
                                      /\ v.issues[i].details.n = Cardinality(orphans)
                  /\ v.data_quality.orphaned_patient_refs = Cardinality(orphans)
            /\ ~fires => v.issues = <<>>

C4_Witness ==
    /\ IsBundle(doc)
    /\ Validated
    /\ PatientEntryIds(Get(doc, "entry", <<>>)) = {"1"}
    /\ Get(validation.value.data_quality, "orphaned_patient_refs", 0) = 2

OneWarningZeroTotal(v) ==
    /\ v.is_valid
    /\ Len(v.issues) = 1
    /\ v.issues[1].severity = "warning"
    /\ Get(v.data_quality, "total_resources", 0) = 0

\* C5 as stated: a Bundle that validates to one warning issue and total 0
\* scores 100 - 10 - 50 = 40.
C5_BundleWarningZeroTotalScores40 ==
    (phase = "scored" /\ IsBundle(doc) /\ OneWarningZeroTotal(validation.value)) =>
        score.value = 40

\* C5 amended: deductions stack additively; a validation result with one
\* warning issue, total 0 and no orphaned_patient_refs scores 100 - 10 - 50 =
\* 40, and a Bundle that validates to one warning issue and total 0 scores
\* 100 - 10 - 20 - 50 = 20, its warning being the orphaned-references one.
C5_DeductionsStack ==
    (phase = "scored" /\ OneWarningZeroTotal(validation.value)) =>
        /\ Get(validation.value.data_quality, "orphaned_patient_refs", 0) = 0
              => score.value = 40
        /\ IsBundle(doc) =>
              /\ validation.value.issues[1].code = "orphaned-references"
              /\ score.value = 20

C5_Witness ==
    /\ phase = "scored"
    /\ IsBundle(doc)
    /\ OneWarningZeroTotal(validation.value)
    /\ score.value = 20

\* C6: a Bundle whose total is 0 or absent scores at most 50, whatever its
\* entries and links (whenever validation returns, the score is computed).
C6_ZeroTotalAtMost50 ==
    (IsBundle(doc) /\ Get(doc, "total", 0) = 0) =>
        /\ (phase = "validated" /\ validation.state = "returned") => ENABLED Score
        /\ phase = "scored" => score.value <= 50

C6_Witness ==
    /\ phase = "scored"
    /\ IsBundle(doc)
    /\ "total" \notin DOMAIN doc
    /\ Len(Get(doc, "entry", <<>>)) = MaxEntries
    /\ score.value = 50

\* C7: a Bundle with total > 0 whose validation has no issues and no
\* orphaned references scores exactly 100.
C7_CleanBundleScores100 ==
    (/\ phase = "scored"
     /\ IsBundle(doc)
     /\ Get(doc, "total", 0) > 0
     /\ validation.value.issues = <<>>
     /\ Get(validation.value.data_quality, "orphaned_patient_refs", 0) = 0) =>
        score.value = 100

C7_Witness ==
    /\ phase = "scored"
    /\ IsBundle(doc)
    /\ Get(doc, "total", 0) > 0
    /\ ReferencedIds(Get(doc, "entry", <<>>)) # {}
    /\ validation.value.issues = <<>>
    /\ score.value = 100

\* C8: the score of any validation result lies in [0, 100].
C8_ScoreInRange ==
    phase = "scored" => (score.value >= 0 /\ score.value <= 100)

C8_Witness ==
    /\ phase = "scored"
    /\ doc = NoDoc
    /\ validation.value.is_valid
    /\ DeductCompleteness(validation.value.data_quality,
                          DeductIssues(validation.value.issues, BaseScore)) < 0
    /\ score.value = 0

(***************************************************************************)
(* Properties of assess_data_quality (checked under Spec)                  *)
(***************************************************************************)
Categories == {test_resources[k] : k \in 1..Len(test_resources)}

GatewayFailed(resource) ==
    /\ resource \in DOMAIN evaluated
    /\ evaluated[resource].result.state = "returned"
    /\ IsOperationOutcome(evaluated[resource].result.value)

EvaluationRaised(resource) ==
    /\ resource \in DOMAIN evaluated
    /\ \/ evaluated[resource].result.state = "raised"
       \/ evaluated[resource].validation.state = "raised"

RaisedText(resource) ==
    IF evaluated[resource].result.state = "raised"
    THEN evaluated[resource].result.error
    ELSE evaluated[resource].validation.error

\* C9: a category for which the gateway returned a Failure outcome is
\* recorded with accessible = FALSE and data_quality_score = 0, and
\* assess_data_quality does not raise.
C9_FailureIsInaccessibleZero ==
    /\ assess_result.state # "raised"
    /\ \A resource \in DOMAIN evaluated :
          GatewayFailed(resource) =>
              /\ resource \in DOMAIN resource_assessments
              /\ resource_assessments[resource].accessible = FALSE
              /\ resource_assessments[resource].data_quality_score = 0
              /\ resource_assessments[resource].issues # <<>>

C9_Witness ==
    /\ pc = "done"
    /\ arguments = [resource_type |-> <<"Patient">>]
    /\ GatewayFailed(<<"Patient">>)
    /\ evaluated[<<"Patient">>].result.value.issue[1].code = "not-found"
    /\ resource_assessments[<<"Patient">>].accessible = FALSE

\* C10: whatever happens to one category (a Failure outcome, or an exception
\* while fetching, validating or scoring), the assessment never raises, the
\* loop goes on to the next category, at the end every requested category
\* has its record, and a category whose evaluation raised is recorded as
\* accessible = FALSE with score 0 and the error text.
C10_Isolation ==
    /\ assess_result.state # "raised"
    /\ pc = "loop" => idx \in 1..Len(test_resources)
    /\ pc # "idle" =>
          /\ DOMAIN resource_assessments = {test_resources[k] : k \in 1..(idx - 1)}
          /\ DOMAIN evaluated = DOMAIN resource_assessments
    /\ (pc = "done" /\ tool = "assess_data_quality") =>
          /\ DOMAIN resource_assessments = Categories
          /\ assess_result = Returned([resource_assessments |-> resource_assessments])
    /\ \A resource \in DOMAIN evaluated :
          EvaluationRaised(resource) =>
              resource_assessments[resource] =
                  [accessible |-> FALSE, error |-> RaisedText(resource),
                   data_quality_score |-> 0]

\* the first category raised (a malformed Bundle), the later ones were evaluated
C10_Witness ==
    /\ pc = "done"
    /\ tool = "assess_data_quality"
    /\ Len(test_resources) = 4
    /\ EvaluationRaised(test_resources[1])
    /\ evaluated[test_resources[1]].validation.state = "raised"
    /\ GatewayFailed(test_resources[2])
    /\ resource_assessments[test_resources[4]].accessible = TRUE

(***************************************************************************)
(* The tool calls                                                          *)
(***************************************************************************)
AssessCall == tool = "assess_data_quality" /\ pc \in {"loop", "done"}

AssessDone == tool = "assess_data_quality" /\ pc = "done"

AssessAnswered == AssessDone /\ reply.state = "returned" /\ reply.value.kind = "assessment"

DefaultCategoriesInOrder ==
    <<(<<"Patient">>), (<<"Observation">>), (<<"Condition">>), (<<"MedicationRequest">>)>>

RequestedEndpoints == [k \in 1..Len(calls) |-> calls[k].endpoint]

\* C11: with no category given, the assessment requests Patient, Observation,
\* Condition, MedicationRequest in that order, each with _count = 10 and
\* one after the other (a request is issued only when the categories before
\* it have their answers recorded, each answer being that of its own
\* request); with one category given, only that category is requested.
C11_DefaultCategoriesSequential ==
    AssessCall =>
        /\ \A k \in 1..Len(calls) :
              /\ calls[k].method = "GET"
              /\ calls[k].params = ("_count" :> 10)
        /\ "resource_type" \notin DOMAIN arguments =>
              /\ RequestedEndpoints = SubSeq(DefaultCategoriesInOrder, 1, idx - 1)
              /\ pc = "done" => Len(calls) = 4
              /\ \A k \in 1..Len(calls) :
                    /\ calls[k].endpoint \in DOMAIN resource_assessments
                    /\ evaluated[calls[k].endpoint].result =
                          make_request("GET", calls[k].endpoint, calls[k].http)
        /\ ("resource_type" \in DOMAIN arguments /\ Len(arguments.resource_type) > 0) =>
              /\ Len(calls) <= 1
              /\ \A k \in 1..Len(calls) : calls[k].endpoint = arguments.resource_type

\* a default run in which the second request timed out and the other two
\* that followed were still made
C11_Witness ==
    /\ AssessDone
    /\ "resource_type" \notin DOMAIN arguments
    /\ Len(calls) = 4
    /\ calls[2].http.kind = "timeout"
    /\ calls[4].endpoint = <<"MedicationRequest">>

AccessibleCategories ==
    {r \in DOMAIN resource_assessments : resource_assessments[r].accessible}

RECURSIVE SumOfScores(_)
SumOfScores(S) ==
    IF S = {} THEN 0
    ELSE LET r == CHOOSE x \in S : TRUE
         IN  resource_assessments[r].data_quality_score + SumOfScores(S \ {r})

\* C12: the overall score of the assessment reply is the sum of
\* data_quality_score over the accessible categories divided by their
\* number; when no category is accessible the reply has no overall score
\* line and no rating line.
C12_OverallIsMeanOfAccessible ==
    AssessAnswered =>
        LET overall == reply.value.body.overall IN
        IF AccessibleCategories = {}
        THEN overall = <<>>
        ELSE /\ Len(overall) = 2
             /\ overall[1].avg.den > 0
             /\ overall[1].avg.num * Cardinality(AccessibleCategories)
                    = SumOfScores(AccessibleCategories) * overall[1].avg.den
             /\ "rating" \in DOMAIN overall[2]

\* two accessible categories (100 and 50) among four: the mean is 75, not 37.5
C12_Witness ==
    /\ AssessAnswered
    /\ Len(test_resources) = 4
    /\ Cardinality(AccessibleCategories) = 2
    /\ SumOfScores(AccessibleCategories) = 150
    /\ reply.value.body.overall[1].shown = 750

\* C13: no tool call raises: a finished call has a text reply, a call whose
\* dispatch raised has the reply 'Error calling tool ...', and after any
\* call the server takes the next one.
C13_EveryCallAnswered ==
    /\ reply.state # "raised"
    /\ assess_result.state # "raised"
    /\ errors <= served
    /\ pc = "done" =>
          /\ reply.state = "returned"
          /\ "kind" \in DOMAIN reply.value
          /\ ENABLED EndCall
    /\ (pc = "idle" /\ served < MaxToolCalls) => (ENABLED CallTool /\ ENABLED StartAssess)

\* the first call failed inside dispatch, the second one was answered
C13_Witness ==
    /\ pc = "done"
    /\ served = 2
    /\ errors = 1
    /\ tool = "get_patient"
    /\ reply.value.kind = "patient"

\* C14: an assessment over n categories has sent exactly n HTTP requests
\* when it ends.
C14_OneRequestPerCategory ==
    AssessDone => Len(calls) = Len(test_resources)

\* C15: get_patient with a missing or empty patient_id is answered with the
\* text 'Patient ID is required' and sends no HTTP request.
C15_MissingPatientIdRejected ==
    (pc = "done" /\ tool = "get_patient" /\ Len(Get(arguments, "patient_id", <<>>)) = 0) =>
        /\ reply = Returned([kind |-> "rejection",
                             body |-> [text |-> "Patient ID is required"]])
        /\ calls = <<>>

C15_Witness ==
    /\ pc = "done"
    /\ tool = "get_patient"
    /\ "patient_id" \in DOMAIN arguments
    /\ arguments.patient_id = <<>>
    /\ reply.value.kind = "rejection"

ClaimedScores == {0, 20, 50, 70, 100}

\* C16: the score of a validated document is one of 0, 20, 50, 70, 100; a
\* Bundle gets at most one issue, the orphaned-references warning, always
\* together with the recorded orphan count, and then scores 70 (20 with
\* total 0); the score of a valid result is the sum of its deductions taken
\* from 100, never the clamp.
C16_ScoreOfValidatedDocument ==
    (doc # NoDoc /\ Validated) =>
        LET issues  == validation.value.issues
            quality == validation.value.data_quality
        IN  /\ IsBundle(doc) =>
                  /\ validation.value.is_valid
                  /\ Len(issues) <= 1
                  /\ \A k \in 1..Len(issues) :
                        issues[k].severity = "warning" /\ issues[k].code = "orphaned-references"
                  /\ (Len(issues) = 1) <=> (Get(quality, "orphaned_patient_refs", 0) > 0)
            /\ phase = "scored" =>
                  /\ score.value \in ClaimedScores
                  /\ (IsBundle(doc) /\ Len(issues) = 1) =>
                        score.value = IF Get(doc, "total", 0) = 0 THEN 20 ELSE 70
                  /\ validation.value.is_valid =>
                        score.value = 100 - (IF Len(issues) = 1 THEN 30 ELSE 0)
                                          - (IF Get(quality, "total_resources", 0) = 0
                                             THEN 50 ELSE 0)

\* a Bundle with an orphaned reference and no total: 100 - 10 - 20 - 50
C16_Witness ==
    /\ phase = "scored"
    /\ IsBundle(doc)
    /\ Len(validation.value.issues) = 1
    /\ score.value = 20

\* C17: a category for which the gateway returned a document that is
\* neither a Bundle nor an OperationOutcome validates as valid with empty
\* data_quality and no issues, and is recorded accessible with
\* total_available 0 and data_quality_score 50.
C17_OtherDocumentAccessibleScores50 ==
    \A resource \in DOMAIN evaluated :
        (/\ evaluated[resource].result.state = "returned"
         /\ ~IsBundle(evaluated[resource].result.value)
         /\ ~IsOperationOutcome(evaluated[resource].result.value)) =>
            /\ evaluated[resource].validation.state = "returned"
            /\ evaluated[resource].validation.value.is_valid
            /\ evaluated[resource].validation.value.data_quality = EmptyDict
            /\ evaluated[resource].validation.value.issues = <<>>
            /\ resource \in DOMAIN resource_assessments
            /\ resource_assessments[resource] =
                  [accessible |-> TRUE, total_available |-> 0,
                   issues |-> <<>>, data_quality_score |-> 50]

\* one category answered with a document without resourceType, another with
\* a document that has a total of its own
C17_Witness ==
    /\ AssessDone
    /\ \E r1, r2 \in DOMAIN evaluated :
          /\ evaluated[r1].result = Returned(EmptyDict)
          /\ evaluated[r2].result.state = "returned"
          /\ "total" \in DOMAIN evaluated[r2].result.value
          /\ ~IsBundle(evaluated[r2].result.value)
          /\ resource_assessments[r1].data_quality_score = 50
          /\ resource_assessments[r2].total_available = 0

\* C18: get_patient never answers 'Patient with ID ... not found' or 'Error
\* retrieving patient'; with a non-empty patient_id one request is sent, and
\* when the gateway returns a Failure outcome for it the reply starts with
\* 'Patient found:' and gives ID, date of birth and gender as 'Unknown'.
C18_FailureOutcomeReportedAsFound ==
    (pc = "done" /\ tool = "get_patient") =>
        /\ reply.state = "returned"
        /\ reply.value.kind # "patient_error"
        /\ Len(Get(arguments, "patient_id", <<>>)) > 0 => Len(calls) = 1
        /\ \A k \in 1..Len(calls) :
              LET result == make_request(calls[k].method, calls[k].endpoint, calls[k].http) IN
              (result.state = "returned" /\ IsOperationOutcome(result.value)) =>
                  /\ reply.value.kind = "patient"
                  /\ reply.value.body.head = [text |-> "Patient found:"]
                  /\ reply.value.body.id = <<"Unknown">>
                  /\ reply.value.body.name = "Unknown Name"
                  /\ reply.value.body.birth_date = "Unknown"
                  /\ reply.value.body.gender = "Unknown"

\* the server answered 404 and the reply says 'Patient found:'
C18_Witness ==
    /\ pc = "done"
    /\ tool = "get_patient"
    /\ Len(calls) = 1
    /\ calls[1].http.kind = "response"
    /\ calls[1].http.status_code = 404
    /\ reply.value.kind = "patient"
    /\ reply.value.body.id = <<"Unknown">>

\* C19: in the assessment reply, a category for which the gateway returned
\* a Failure outcome has a record without 'error' and is shown with the one
\* line 'Error: Unknown error', none of its issues; a category whose
\* evaluation raised is shown with the exception's text, and no other
\* category shows an error text.
C19_FailureOutcomeShownAsUnknownError ==
    AssessAnswered =>
        LET blocks == reply.value.body.categories IN
        /\ Len(blocks) = Len(test_resources)
        /\ \A k \in 1..Len(blocks) :
              LET resource == blocks[k].resource
                  lines    == blocks[k].lines
              IN  /\ resource = test_resources[k]
                  /\ GatewayFailed(resource) =>
                        /\ "error" \notin DOMAIN resource_assessments[resource]
                        /\ Len(lines) = 4
                        /\ lines[2] = [text |-> "  Accessible: ", accessible |-> FALSE]
                        /\ lines[3] = [text |-> "  Error: ", error |-> "Unknown error"]
                        /\ lines[4] = [text |-> ""]
                  /\ EvaluationRaised(resource) =>
                        /\ Len(lines) = 4
                        /\ lines[3] = [text |-> "  Error: ", error |-> RaisedText(resource)]
                  /\ \A j \in 1..Len(lines) :
                        ("error" \in DOMAIN lines[j] /\ lines[j].error # "Unknown error")
                            => EvaluationRaised(resource)

\* a 404 category whose record holds the outcome's issue, next to a category
\* whose validation raised
C19_Witness ==
    /\ AssessAnswered
    /\ \E r1, r2 \in DOMAIN resource_assessments :
          /\ GatewayFailed(r1)
          /\ Len(resource_assessments[r1].issues) > 0
          /\ EvaluationRaised(r2)

\* C20: resource_type = "" is treated like no resource_type: the four
\* default categories in the default order, and no request for an empty
\* category name.
C20_EmptyCategoryMeansDefaults ==
    (AssessCall /\ "resource_type" \in DOMAIN arguments /\ Len(arguments.resource_type) = 0) =>
        /\ test_resources = DefaultCategoriesInOrder
        /\ RequestedEndpoints = SubSeq(DefaultCategoriesInOrder, 1, idx - 1)
        /\ \A k \in 1..Len(calls) : Len(calls[k].endpoint) > 0
        /\ pc = "done" => Len(calls) = 4

C20_Witness ==
    /\ AssessDone
    /\ "resource_type" \in DOMAIN arguments
    /\ Len(arguments.resource_type) = 0
    /\ RequestedEndpoints = DefaultCategoriesInOrder

====
